---- MODULE Spec2Model ----
(***************************************************************************)
(* Model of the poetry-camera WiFi portal (wifi_portal/app.py).            *)
(*                                                                         *)
(* The portal is a Flask application.  Requests are served by concurrent   *)
(* request threads; a background submit additionally starts a detached     *)
(* threading.Thread.  The model keeps one slot per request, one thread     *)
(* record per request, the hotspot_config.json file and a clock.           *)
(*                                                                         *)
(* Two Python facts of the source shape the model and are modelled as      *)
(* Python evaluates them:                                                  *)
(*   - line 265 starts the thread with args=(ssid, password) while         *)
(*     hotspot_scanning (line 253) takes no parameter, so Thread.run's     *)
(*     call of the target with two arguments raises TypeError in the      *)
(*     thread;                                                             *)
(*   - attempt_connect_hotspot returns a str (lines 180-184) and line 280  *)
(*     reads result.stderr, which raises AttributeError on a str.          *)
(***************************************************************************)
EXTENDS Integers, Sequences, FiniteSets

(***************************************************************************)
(* Bounds of the model.                                                    *)
(***************************************************************************)
NumReq == 2          \* request slots (concurrent or successive requests)
MaxTick == 1         \* clock ticks observed while requests are served
MaxAttemptDur == 2   \* longest duration of one nmcli connect attempt
MaxLines == 3        \* lines of the output of one scan
MaxEntries == 2      \* rows of the output of one status query
MaxTextLen == 7      \* characters of a text given to wrap_text
MaxLineLength == 5   \* largest line_length given to wrap_text

(***************************************************************************)
(* Program constants.                                                      *)
(***************************************************************************)
MaxDuration == 120   \* end_time = time.time() + 120
SleepInterval == 5   \* time.sleep(5)

Reqs == 1..NumReq

(***************************************************************************)
(* Form inputs.  request.form.get("manual_connect") is None or a string.   *)
(***************************************************************************)
Ssids == {"HomeNet", "Cafe"}
Passwords == {"", "secret"}
NoneValue == "None"
ManualValues == {NoneValue, "on"}

\* Python truthiness of a str-or-None form value.
Truthy(v) == v # NoneValue /\ v # ""

(***************************************************************************)
(* Tool output text.  A text is a set of tokens; a token is one of the     *)
(* phrases the code looks for (or other text), with cap telling whether    *)
(* its first letter is written in upper case.  The empty set is the empty  *)
(* byte string.                                                            *)
(***************************************************************************)
PskInvalid == "psk: property is invalid"
SuccessfullyActivated == "successfully activated"
ActivationFailed == "connection activation failed"
NoNetwork == "no network with ssid"
NoSecrets == "no valid secrets"
NoDevice == "no suitable device found"
NotReady == "device not ready"
InvalidPassword == "invalid password"
NotFoundOrIncorrect == "could not be found or the password is incorrect"
OtherText == "other text"

StdoutPhrases ==
    {SuccessfullyActivated, ActivationFailed, NoNetwork, NoSecrets, NoDevice,
     NotReady, InvalidPassword, NotFoundOrIncorrect}

Tok(w, c) == [w |-> w, cap |-> c]
EmptyText == {}

\* str.lower()
Lower(text) == {Tok(t.w, FALSE) : t \in text}

\* phrase in text   (phrase written in lower case, as in the source)
Contains(text, phrase) == Tok(phrase, FALSE) \in text

\* "Success" in text: only "Successfully activated" carries that substring.
ContainsSuccessWord(text) == Tok(SuccessfullyActivated, TRUE) \in text

\* Outputs nmcli may produce on stdout and on stderr: every phrase with a
\* capital, some in lower case, and one text holding two phrases.
OutTexts ==
    {EmptyText}
    \cup {{Tok(p, TRUE)} : p \in StdoutPhrases \cup {OtherText}}
    \cup {{Tok(SuccessfullyActivated, FALSE)}, {Tok(OtherText, FALSE)}}
    \cup {{Tok(SuccessfullyActivated, FALSE), Tok(ActivationFailed, TRUE)}}
ErrTexts ==
    {EmptyText, {Tok(PskInvalid, TRUE)}, {Tok(OtherText, TRUE)},
     {Tok(OtherText, FALSE)}}
\* One stream is empty, or stdout reports success while stderr has text.
GatewayOutputs ==
    {p \in OutTexts \X ErrTexts :
        \/ p[1] = EmptyText
        \/ p[2] = EmptyText
        \/ p[1] = {Tok(SuccessfullyActivated, FALSE)}}

(***************************************************************************)
(* ConfigStore: hotspot_config.json.  The file holds a sequence of JSON    *)
(* tokens; json.dump writes them and json.load parses them back.           *)
(***************************************************************************)
NoFile == [exists |-> FALSE, data |-> <<>>]
Truncated == [exists |-> TRUE, data |-> <<>>]

EmptyDict == [keys |-> {}, ssid |-> "", password |-> ""]

\* The dict built by save_hotspot_config: the password key only if truthy.
SaveConfigDict(ssid, password) ==
    IF Truthy(password)
    THEN [keys |-> {"ssid", "password"}, ssid |-> ssid, password |-> password]
    ELSE [keys |-> {"ssid"}, ssid |-> ssid, password |-> ""]

\* json.dump(config, f)
JsonDump(config) ==
    <<"{">>
    \o (IF "ssid" \in config.keys THEN <<"ssid", config.ssid>> ELSE <<>>)
    \o (IF "password" \in config.keys THEN <<"password", config.password>> ELSE <<>>)
    \o <<"}">>

JsonDecodeError == "JSONDecodeError"

\* json.load(f): the dict the tokens spell, or JSONDecodeError.
JsonLoad(data) ==
    IF data = <<"{", "}">>
    THEN [ok |-> TRUE, value |-> EmptyDict]
    ELSE IF Len(data) = 4 /\ data[1] = "{" /\ data[2] = "ssid" /\ data[4] = "}"
    THEN [ok |-> TRUE,
          value |-> [keys |-> {"ssid"}, ssid |-> data[3], password |-> ""]]
    ELSE IF Len(data) = 6 /\ data[1] = "{" /\ data[2] = "ssid"
            /\ data[4] = "password" /\ data[6] = "}"
    THEN [ok |-> TRUE,
          value |-> [keys |-> {"ssid", "password"}, ssid |-> data[3],
                     password |-> data[5]]]
    ELSE [ok |-> FALSE, value |-> EmptyDict]

\* open(config_file, "w"): the file is created or truncated to length 0.
OpenForWrite(f) == Truncated

\* json.dump(config, f) and the close at the end of the with block: the
\* buffered text is written at the handle's own offset, 0, over whatever the
\* file holds by then; what lies beyond the text written stays.
WriteAt0(old, new) ==
    [exists |-> TRUE, data |-> new \o SubSeq(old.data, Len(new) + 1, Len(old.data))]

\* Variant: save_hotspot_config is called whatever manual_connect is.
SaveAlways(manual, f) == OpenForWrite(f)

\* The branch of line 263: save_hotspot_config is called, and its open
\* executed, only if manual_connect is truthy.
SaveIfManual(manual, f) == IF Truthy(manual) THEN OpenForWrite(f) ELSE f

(***************************************************************************)
(* Replies of an operation to its caller.                                  *)
(***************************************************************************)
\* A message is a fixed sentence (with the value formatted into it, if any)
\* or text taken from the tool.
NoMessage == [fixed |-> "", arg |-> "", text |-> EmptyText]
Fixed(m) == [fixed |-> m, arg |-> "", text |-> EmptyText]
Formatted(m, a) == [fixed |-> m, arg |-> a, text |-> EmptyText]
Raw(text) == [fixed |-> "", arg |-> "", text |-> text]

NoReply ==
    [kind |-> "none", status |-> "", message |-> NoMessage,
     value |-> EmptyDict, exc |-> ""]
JsonReply(status, message) ==
    [kind |-> "json", status |-> status, message |-> message,
     value |-> EmptyDict, exc |-> ""]
ValueReply(v) ==
    [kind |-> "value", status |-> "", message |-> NoMessage,
     value |-> v, exc |-> ""]
Raised(e) ==
    [kind |-> "exception", status |-> "", message |-> NoMessage,
     value |-> EmptyDict, exc |-> e]

\* load_hotspot_config: only FileNotFoundError is caught.
load_hotspot_config(f) ==
    IF ~f.exists THEN ValueReply(EmptyDict)
    ELSE IF JsonLoad(f.data).ok THEN ValueReply(JsonLoad(f.data).value)
    ELSE Raised(JsonDecodeError)

(***************************************************************************)
(* attempt_connect_hotspot                                                 *)
(***************************************************************************)
\* connection_command
ConnectionCommand(ssid, password) ==
    <<"nmcli", "--colors", "no", "device", "wifi", "connect", ssid>>
    \o (IF Truthy(password) /\ password # ""
        THEN <<"password", password>> ELSE <<>>)

\* A Python str built by an f-string: a literal prefix and the decoded text.
Str(prefix, body) == [type |-> "str", prefix |-> prefix, body |-> body]
NoResult == Str("", EmptyText)

\* The value attempt_connect_hotspot returns for the tool's output.
AttemptResult(stdout, stderr) ==
    IF stderr # EmptyText THEN Str("Error: ", stderr)
    ELSE IF stdout # EmptyText THEN Str("Success: ", stdout)
    ELSE Str("Unknown error.", EmptyText)

\* "Success" in result
SuccessIn(result) ==
    result.prefix = "Success: " \/ ContainsSuccessWord(result.body)

(***************************************************************************)
(* submit: the response built from a result that has stdout and stderr.    *)
(***************************************************************************)
ResponseData(stdout, stderr) ==
    IF stderr # EmptyText
    THEN IF Contains(Lower(stderr), PskInvalid)
         THEN JsonReply("error", Fixed("Wrong password"))
         ELSE JsonReply("error", Raw(Lower(stderr)))
    ELSE IF stdout # EmptyText
    THEN IF Contains(Lower(stdout), SuccessfullyActivated)
         THEN JsonReply("success", Raw(stdout))
         ELSE IF Contains(Lower(stdout), ActivationFailed)
         THEN JsonReply("error", Fixed("Connection activation failed."))
         ELSE IF Contains(Lower(stdout), NoNetwork)
         THEN JsonReply("error",
                  Fixed("Could not find a wifi network with the specified SSID."))
         ELSE IF Contains(Lower(stdout), NoSecrets)
         THEN JsonReply("error", Fixed("Wrong password"))
         ELSE IF Contains(Lower(stdout), NoDevice)
         THEN JsonReply("error",
                  Fixed("Could not connect. Possible hardware issue."))
         ELSE IF Contains(Lower(stdout), NotReady)
         THEN JsonReply("error", Fixed("The device is not ready."))
         ELSE IF Contains(Lower(stdout), InvalidPassword)
         THEN JsonReply("error", Fixed("Wrong password"))
         ELSE IF Contains(Lower(stdout), NotFoundOrIncorrect)
         THEN JsonReply("error",
                  Fixed("The password is incorrect or the network could not be found."))
         ELSE JsonReply("error", Raw(stdout))
    ELSE JsonReply("error", Fixed("Could not connect. Please try again."))

\* Lines 275-316 applied to the value of line 273: result.stderr is read
\* first, and a str has no such attribute.
SubmitResponse(result) ==
    IF result.type = "str"
    THEN Raised("AttributeError")
    ELSE ResponseData(result.stdout, result.stderr)

\* Variant: the reply reports the connection as made.
BackgroundReplySuccess(ssid) ==
    JsonReply("success",
        Formatted("Attempting to connect to the {ssid} network. This could take up to 2 minutes.",
                  ssid))

\* The reply of a background submit (lines 266-271).
BackgroundReply(ssid) ==
    JsonReply("info",
        Formatted("Attempting to connect to the {ssid} network. This could take up to 2 minutes.",
                  ssid))

(***************************************************************************)
(* index: the scan of the networks nearby (lines 190-222).                 *)
(***************************************************************************)
\* Sequences over S of length at most n.
BoundedSeq(S, n) == UNION {[1..k -> S] : k \in 0..n}

\* The camera's own network (line 217).
SetupName == "PoetryCameraSetup"

\* The prefix of a line of the scan (line 216), one character per element.
SsidPrefix == <<"S", "S", "I", "D", ":">>

\* Network names as runs of characters: none, two ordinary names, the
\* camera's own name, and a name that begins with the camera's name.
ScanNames ==
    {<<>>, <<"HomeNet">>, <<"Cafe">>, <<SetupName>>, <<SetupName, "-Guest">>}

\* result.decode().split("\n"): a line per network, and empty lines.
ScanLines == {<<>>} \cup {SsidPrefix \o n : n \in ScanNames}

\* What running the scan command can come to: output with exit status 0,
\* a non-zero exit status (tool error, no such device), no nmcli binary.
ScanOutcomes ==
    {[kind |-> "ok", lines |-> l] : l \in BoundedSeq(ScanLines, MaxLines)}
    \cup {[kind |-> "exit_error", lines |-> <<>>],
          [kind |-> "no_binary", lines |-> <<>>]}

\* subprocess.check_output: the output, or the exception it raises.
CheckOutput(scan) ==
    CASE scan.kind = "ok" -> [exc |-> "", lines |-> scan.lines]
      [] scan.kind = "exit_error" -> [exc |-> "CalledProcessError", lines |-> <<>>]
      [] scan.kind = "no_binary" -> [exc |-> "FileNotFoundError", lines |-> <<>>]

\* needle in line
In(needle, line) == \E i \in 1..Len(line) : line[i] = needle

\* Number of characters line 217 drops from the front of a line.
PrefixLen == 5

\* ssid[5:]
DropPrefix(line) == SubSeq(line, PrefixLen + 1, Len(line))

\* "PoetryCameraSetup" not in ssid
NotSetupLine(line) == ~In(SetupName, line)

\* Line 217, then list(set(filter(None, ssids_list))) of line 220.
UniqueSsids(lines) ==
    LET kept == SelectSeq(lines, NotSetupLine)
        names == {DropPrefix(kept[i]) : i \in 1..Len(kept)}
    IN  {n \in names : n # <<>>}

(***************************************************************************)
(* get_network_status (lines 143-162).                                     *)
(***************************************************************************)
WIFI_DEVICE == "wlan1"

\* SSIDs as runs of characters; one holds a colon.
StatusSsids == {<<"HomeNet">>, <<"My", ":", "Net">>}

\* A row of nmcli device wifi: device, active, ssid.
StatusEntries ==
    [device : {WIFI_DEVICE, "wlan0"}, active : {"yes", "no"}, ssid : StatusSsids]

\* What running the status command can come to: rows, or an exception of
\* subprocess.run or of the decoding.
StatusOutcomes ==
    {[kind |-> "ok", entries |-> e] : e \in BoundedSeq(StatusEntries, MaxEntries)}
    \cup {[kind |-> "error", entries |-> <<>>]}

\* nmcli -t escapes a colon inside a value with a backslash.
RECURSIVE Escape(_)
Escape(chars) ==
    IF chars = <<>> THEN <<>>
    ELSE (IF Head(chars) = ":" THEN <<"\\", ":">> ELSE <<Head(chars)>>)
         \o Escape(Tail(chars))

\* A line of nmcli -t -f device,active,ssid: the fields joined by colons.
TerseLine(e) == <<e.device, ":", e.active, ":">> \o Escape(e.ssid)

\* line.startswith(prefix)
StartsWith(line, prefix) ==
    Len(line) >= Len(prefix) /\ SubSeq(line, 1, Len(prefix)) = prefix

\* str.split(sep): the pieces between the separators, empty ones included.
RECURSIVE SplitAt(_, _)
SplitAt(str, sep) ==
    IF \A i \in 1..Len(str) : str[i] # sep THEN <<str>>
    ELSE LET i == CHOOSE j \in 1..Len(str) :
                      str[j] = sep /\ \A k \in 1..(j - 1) : str[k] # sep
         IN  <<SubSeq(str, 1, i - 1)>> \o SplitAt(SubSeq(str, i + 1, Len(str)), sep)

\* line.split(":")
Split(line) == SplitAt(line, ":")

\* The for loop of lines 153-157 from row i on.
RECURSIVE ScanRows(_, _)
ScanRows(entries, i) ==
    IF i > Len(entries) THEN [internet_status |-> "offline", ssid |-> <<>>]
    ELSE IF StartsWith(TerseLine(entries[i]), <<WIFI_DEVICE, ":", "yes", ":">>)
    THEN [internet_status |-> "online", ssid |-> Split(TerseLine(entries[i]))[3]]
    ELSE ScanRows(entries, i + 1)

\* get_network_status: every exception is caught (line 158).
get_network_status(status) ==
    IF status.kind = "error" THEN [internet_status |-> "offline", ssid |-> <<>>]
    ELSE ScanRows(status.entries, 1)

\* The page index renders, the text it returns, or the exception it lets out.
PageReply(ssids_list, st) ==
    [kind |-> "page", ssids_list |-> ssids_list,
     internet_status |-> st.internet_status, ssid |-> st.ssid]
TextReply(m) == [kind |-> "text", message |-> Fixed(m)]
StatusReply(st) ==
    [kind |-> "status", internet_status |-> st.internet_status, ssid |-> st.ssid]

\* index
index(gw) ==
    LET result == CheckOutput(gw.scan)
    IN  IF result.exc = "CalledProcessError"
        THEN TextReply("Error: Unable to retrieve WiFi networks. Likely a wifi adapter issue.")
        ELSE IF result.exc # "" THEN Raised(result.exc)
        ELSE PageReply(UniqueSsids(result.lines), get_network_status(gw.status))

(***************************************************************************)
(* wraptext.py: wrap_text(text, line_length).  A text is a sequence of     *)
(* characters: a letter, a space or a newline.                             *)
(***************************************************************************)
Letter == "x"
Space == " "
Newline == "\n"

\* The texts and the line lengths wrap_text is called with.
Texts == BoundedSeq({Letter, Space, Newline}, MaxTextLen)
LineLengths == 1..MaxLineLength

\* indent = '   ' and indent_length = len(indent)
Indent == <<Space, Space, Space>>
IndentLength == Len(Indent)

\* str.strip()
RECURSIVE Strip(_)
Strip(str) ==
    IF str = <<>> THEN <<>>
    ELSE IF Head(str) = Space THEN Strip(Tail(str))
    ELSE IF str[Len(str)] = Space THEN Strip(SubSeq(str, 1, Len(str) - 1))
    ELSE str

\* line.split(): the runs of characters between runs of spaces.
RECURSIVE Words(_)
Words(line) ==
    IF line = <<>> THEN <<>>
    ELSE IF Head(line) = Space THEN Words(Tail(line))
    ELSE LET n == CHOOSE k \in 1..Len(line) :
                      /\ \A j \in 1..k : line[j] # Space
                      /\ k = Len(line) \/ line[k + 1] = Space
         IN  <<SubSeq(line, 1, n)>> \o Words(SubSeq(line, n + 1, Len(line)))

\* A finished line as it is added to wrapped_text (lines 27-34 and 40-43).
Flush(current_line, line_start) ==
    (IF line_start THEN <<>> ELSE Indent) \o Strip(current_line) \o <<Newline>>

\* The loop over the words of one line (lines 16-37), from word i on, and
\* the last line added after it (lines 39-43).
RECURSIVE WrapWords(_, _, _, _, _, _)
WrapWords(words, i, current_line, line_start, wrapped_text, line_length) ==
    IF i > Len(words)
    THEN wrapped_text \o Flush(current_line, line_start)
    ELSE LET word == words[i]
             adjusted_line_length ==
                 IF line_start THEN line_length ELSE line_length - IndentLength
         IN  IF Len(current_line) + Len(word) <= adjusted_line_length
             THEN WrapWords(words, i + 1, current_line \o word \o <<Space>>,
                            line_start, wrapped_text, line_length)
             ELSE WrapWords(words, i + 1, word \o <<Space>>, FALSE,
                            wrapped_text \o Flush(current_line, line_start),
                            line_length)

\* The loop over the lines of the text (line 10), from line k on.
RECURSIVE WrapLines(_, _, _, _)
WrapLines(lines, k, wrapped_text, line_length) ==
    IF k > Len(lines) THEN wrapped_text
    ELSE WrapLines(lines, k + 1,
                   WrapWords(Words(lines[k]), 1, <<>>, TRUE, wrapped_text,
                             line_length),
                   line_length)

wrap_text(text, line_length) ==
    WrapLines(SplitAt(text, Newline), 1, <<>>, line_length)

(***************************************************************************)
(* State.                                                                  *)
(***************************************************************************)
\* The condition under which lines 280-290 report status "success": stderr
\* empty and stdout containing "successfully activated".  thread[r].okSeen
\* is a history field recording whether an attempt of the session met it.
TableSuccess(stdout, stderr) ==
    stderr = EmptyText /\ Contains(Lower(stdout), SuccessfullyActivated)

VARIABLES
    now,      \* time.time()
    file,     \* hotspot_config.json
    req,      \* per request slot: position in its handler and its locals
    reply,    \* per request slot: what the caller received
    thread,   \* per request slot: the threading.Thread it started, if any
    hist,     \* history of save_hotspot_config calls (not program state)
    gateway,  \* what nmcli reports about the scan and about the devices
    wrap      \* a call of wrap_text: its arguments and its return value

vars == <<now, file, req, reply, thread, hist, gateway, wrap>>

NewReq ==
    [pc |-> "new", op |-> "", ssid |-> "", password |-> "", manual |-> NoneValue,
     calls |-> 0, cmd |-> <<>>, out |-> EmptyText, err |-> EmptyText]

NoThread ==
    [st |-> "none", args |-> <<>>, ssid |-> "", password |-> "",
     started |-> 0, ended |-> 0, end_time |-> 0,
     attempts |-> 0, firstStart |-> 0, lastStart |-> 0, busy |-> 0, dur |-> 0,
     cmd |-> <<>>, out |-> EmptyText, err |-> EmptyText, result |-> NoResult,
     okSeen |-> FALSE, exc |-> ""]

\* threading.Thread(target=hotspot_scanning, args=args).start()
StartedThread(ssid, password, args, t) ==
    [NoThread EXCEPT !.st = "started", !.args = args, !.ssid = ssid,
                     !.password = password, !.started = t]

\* The args tuple line 265 passes to the thread's target.
ThreadArgs(ssid, password) == <<ssid, password>>

\* Number of parameters of hotspot_scanning (line 253).
HotspotScanningParams == <<>>

\* nmcli has nothing to report.
NoGateway == [scan |-> [kind |-> "ok", lines |-> <<>>],
              status |-> [kind |-> "ok", entries |-> <<>>]]

\* wrap_text has not been called.
NoWrap == [pc |-> "none", text |-> <<>>, line_length |-> 0, out |-> <<>>]

\* No save has been called yet.
NoSaves == [saves |-> 0, last |-> <<>>]

Init ==
    /\ now = 0
    /\ file = NoFile
    /\ req = [r \in Reqs |-> NewReq]
    /\ reply = [r \in Reqs |-> NoReply]
    /\ thread = [r \in Reqs |-> NoThread]
    /\ hist = NoSaves
    /\ gateway = NoGateway
    /\ wrap = NoWrap

\* Slot r takes the next request: slots are used in order.
Free(r) ==
    /\ req[r].pc = "new"
    /\ IF r = 1 THEN TRUE ELSE req[r - 1].pc # "new"

\* The handler has returned: its locals are gone.
Done(r, calls, out, err) ==
    [NewReq EXCEPT !.pc = "done", !.op = req[r].op, !.manual = req[r].manual,
                   !.calls = calls, !.out = out, !.err = err]

\* Time passes.
Tick ==
    /\ now < MaxTick
    /\ now' = now + 1
    /\ UNCHANGED <<file, req, reply, thread, hist, gateway, wrap>>

(***************************************************************************)
(* submit with manual_connect set (lines 263-271).                         *)
(***************************************************************************)
\* Up to open(config_file, "w") in save_hotspot_config, which truncates.
SubmitManual(r) ==
    /\ Free(r)
    /\ \E ssid \in Ssids, password \in Passwords, manual \in ManualValues :
          /\ Truthy(manual)
          /\ req' = [req EXCEPT ![r] =
                 [NewReq EXCEPT !.pc = "saving", !.op = "submit", !.ssid = ssid,
                                !.password = password, !.manual = manual]]
          /\ file' = SaveIfManual(manual, file)
    /\ UNCHANGED hist
    /\ UNCHANGED <<now, reply, thread, gateway, wrap>>

\* json.dump and close, Thread(...).start(), return jsonify(...).
SubmitManualFinish(r) ==
    /\ req[r].pc = "saving"
    /\ file' = WriteAt0(file, JsonDump(SaveConfigDict(req[r].ssid, req[r].password)))
    /\ hist' = [hist EXCEPT !.saves = hist.saves + 1,
                            !.last = <<req[r].ssid, req[r].password>>]
    /\ thread' = [thread EXCEPT ![r] =
           StartedThread(req[r].ssid, req[r].password,
                         ThreadArgs(req[r].ssid, req[r].password), now)]
    /\ reply' = [reply EXCEPT ![r] = BackgroundReply(req[r].ssid)]
    /\ req' = [req EXCEPT ![r] = Done(r, 0, EmptyText, EmptyText)]
    /\ UNCHANGED <<now, gateway, wrap>>

(***************************************************************************)
(* submit without manual_connect (lines 273-316).                          *)
(***************************************************************************)
\* Up to subprocess.run in attempt_connect_hotspot: the tool is running.
SubmitOnce(r) ==
    /\ Free(r)
    /\ \E ssid \in Ssids, password \in Passwords, manual \in ManualValues :
          /\ ~Truthy(manual)
          /\ req' = [req EXCEPT ![r] =
                 [NewReq EXCEPT !.pc = "connecting", !.op = "submit",
                                !.ssid = ssid, !.password = password,
                                !.manual = manual, !.calls = 1,
                                !.cmd = ConnectionCommand(ssid, password)]]
          /\ file' = SaveIfManual(manual, file)
    /\ UNCHANGED <<now, reply, thread, hist, gateway, wrap>>

\* The tool returns; attempt_connect_hotspot returns; the rest of submit.
ConnectReturn(r) ==
    /\ req[r].pc = "connecting"
    /\ \E o \in GatewayOutputs :
          /\ req' = [req EXCEPT ![r] = Done(r, req[r].calls, o[1], o[2])]
          /\ reply' = [reply EXCEPT ![r] = SubmitResponse(AttemptResult(o[1], o[2]))]
    /\ UNCHANGED <<now, file, thread, hist, gateway, wrap>>

(***************************************************************************)
(* load_hotspot_config called by a client of the store.                    *)
(***************************************************************************)
Load(r) ==
    /\ Free(r)
    /\ req' = [req EXCEPT ![r] = [NewReq EXCEPT !.pc = "done", !.op = "load"]]
    /\ reply' = [reply EXCEPT ![r] = load_hotspot_config(file)]
    /\ UNCHANGED <<now, file, thread, hist, gateway, wrap>>

(***************************************************************************)
(* GET /: index, and get_network_status called by a client.                *)
(***************************************************************************)
Index(r) ==
    /\ Free(r)
    /\ req' = [req EXCEPT ![r] = [NewReq EXCEPT !.pc = "done", !.op = "index"]]
    /\ reply' = [reply EXCEPT ![r] = index(gateway)]
    /\ UNCHANGED <<now, file, thread, hist, gateway, wrap>>

Status(r) ==
    /\ Free(r)
    /\ req' = [req EXCEPT ![r] = [NewReq EXCEPT !.pc = "done", !.op = "status"]]
    /\ reply' = [reply EXCEPT ![r] = StatusReply(get_network_status(gateway.status))]
    /\ UNCHANGED <<now, file, thread, hist, gateway, wrap>>

(***************************************************************************)
(* The background thread.                                                  *)
(***************************************************************************)
\* Thread.run: the target is called with the thread's args.  A call whose
\* argument count differs from the parameter count raises TypeError, which
\* ends the thread; otherwise line 254 is executed.
\* end_time = time.time() + 120
Deadline(t) == t + MaxDuration

\* Variant: the loop test allows one more sleep interval.
LoopGuardLate(t, end_time) == t - SleepInterval < end_time

\* while time.time() < end_time
LoopGuard(t, end_time) == t < end_time

\* if "Success" in result: break
BreakOn(result) == SuccessIn(result)

ThreadRun(r) ==
    /\ thread[r].st = "started"
    /\ thread' = [thread EXCEPT ![r] =
           IF Len(thread[r].args) = Len(HotspotScanningParams)
           THEN [@ EXCEPT !.st = "check", !.end_time = Deadline(now)]
           ELSE [@ EXCEPT !.st = "crashed", !.exc = "TypeError", !.ended = now]]
    /\ UNCHANGED <<now, file, req, reply, hist, gateway, wrap>>

\* The loop test of line 255 and, if it passes, the start of the attempt of
\* line 256 (subprocess.run is running); else hotspot_scanning returns.
LoopCheck(r) ==
    /\ thread[r].st = "check"
    /\ thread' = [thread EXCEPT ![r] =
           IF LoopGuard(now, thread[r].end_time)
           THEN [@ EXCEPT !.st = "attempting",
                          !.attempts = @ + 1,
                          !.firstStart = IF thread[r].attempts = 0 THEN now ELSE @,
                          !.lastStart = now,
                          !.cmd = ConnectionCommand(thread[r].ssid, thread[r].password)]
           ELSE [@ EXCEPT !.st = "finished", !.ended = now]]
    /\ UNCHANGED <<now, file, req, reply, hist, gateway, wrap>>

\* The tool returns after d time units; lines 180-184 and 258-260.
AttemptReturn(r) ==
    /\ thread[r].st = "attempting"
    /\ \E d \in 0..MaxAttemptDur, o \in GatewayOutputs :
          /\ now' = now + d
          /\ thread' = [thread EXCEPT ![r] =
                 [@ EXCEPT !.out = o[1], !.err = o[2],
                           !.result = AttemptResult(o[1], o[2]),
                           !.dur = d, !.busy = @ + d,
                           !.okSeen = @ \/ TableSuccess(o[1], o[2]),
                           !.st = IF BreakOn(AttemptResult(o[1], o[2]))
                                  THEN "finished" ELSE "sleeping",
                           !.ended = IF BreakOn(AttemptResult(o[1], o[2]))
                                     THEN now + d ELSE @]]
    /\ UNCHANGED <<file, req, reply, hist, gateway, wrap>>

\* Variant: the loop does not sleep.
AfterSleepNone(t) == t

\* Variant: the sleep lasts two intervals.
AfterSleepLong(t) == t + 2 * SleepInterval

\* The time at which time.sleep(5), called at t, returns.
AfterSleep(t) == t + SleepInterval

\* time.sleep(5)
Sleep(r) ==
    /\ thread[r].st = "sleeping"
    /\ now' = AfterSleep(now)
    /\ thread' = [thread EXCEPT ![r].st = "check"]
    /\ UNCHANGED <<file, req, reply, hist, gateway, wrap>>

Next ==
    \/ Tick
    \/ \E r \in Reqs : SubmitManual(r)
    \/ \E r \in Reqs : SubmitManualFinish(r)
    \/ \E r \in Reqs : SubmitOnce(r)
    \/ \E r \in Reqs : ConnectReturn(r)
    \/ \E r \in Reqs : Load(r)
    \/ \E r \in Reqs : ThreadRun(r)

Spec == Init /\ [][Next]_vars

(***************************************************************************)
(* hotspot_scanning on its own: the function of lines 253-261 called with  *)
(* no argument, as line 253 declares it, in the closure of a background    *)
(* submit of (ssid, password) that has saved the config and replied.       *)
(***************************************************************************)
InitLoop ==
    /\ now = 0
    /\ \E ssid \in Ssids, password \in Passwords :
          /\ file = [exists |-> TRUE,
                     data |-> JsonDump(SaveConfigDict(ssid, password))]
          /\ thread = [r \in Reqs |->
                 IF r = 1 THEN StartedThread(ssid, password, HotspotScanningParams, 0)
                 ELSE NoThread]
          /\ reply = [r \in Reqs |->
                 IF r = 1 THEN BackgroundReply(ssid) ELSE NoReply]
          /\ hist = [saves |-> 1, last |-> <<ssid, password>>]
    /\ gateway = NoGateway
    /\ wrap = NoWrap
    /\ req = [r \in Reqs |->
           IF r = 1
           THEN [NewReq EXCEPT !.pc = "done", !.op = "submit", !.manual = "on"]
           ELSE NewReq]

NextLoop ==
    \/ \E r \in Reqs : ThreadRun(r)
    \/ \E r \in Reqs : LoopCheck(r)
    \/ \E r \in Reqs : AttemptReturn(r)
    \/ \E r \in Reqs : Sleep(r)

SpecLoop == InitLoop /\ [][NextLoop]_vars

(***************************************************************************)
(* The portal's queries, index and get_network_status, for every report    *)
(* of nmcli within the bounds.                                             *)
(***************************************************************************)
InitQuery ==
    /\ now = 0
    /\ file = NoFile
    /\ req = [r \in Reqs |-> NewReq]
    /\ reply = [r \in Reqs |-> NoReply]
    /\ thread = [r \in Reqs |-> NoThread]
    /\ hist = NoSaves
    /\ gateway \in
          {[scan |-> s, status |-> NoGateway.status] : s \in ScanOutcomes}
          \cup {[scan |-> NoGateway.scan, status |-> t] : t \in StatusOutcomes}
    /\ wrap = NoWrap

NextQuery ==
    \/ \E r \in Reqs : Index(r)
    \/ \E r \in Reqs : Status(r)

SpecQuery == InitQuery /\ [][NextQuery]_vars

(***************************************************************************)
(* wrap_text called with every text and line length within the bounds.     *)
(***************************************************************************)
InitWrap ==
    /\ now = 0
    /\ file = NoFile
    /\ req = [r \in Reqs |-> NewReq]
    /\ reply = [r \in Reqs |-> NoReply]
    /\ thread = [r \in Reqs |-> NoThread]
    /\ hist = NoSaves
    /\ gateway = NoGateway
    /\ \E text \in Texts, line_length \in LineLengths :
          wrap = [pc |-> "called", text |-> text, line_length |-> line_length,
                  out |-> <<>>]

\* The call returns.
WrapText ==
    /\ wrap.pc = "called"
    /\ wrap' = [wrap EXCEPT !.pc = "returned",
                            !.out = wrap_text(wrap.text, wrap.line_length)]
    /\ UNCHANGED <<now, file, req, reply, thread, hist, gateway>>

NextWrap == WrapText

SpecWrap == InitWrap /\ [][NextWrap]_vars

(***************************************************************************)
(* Vocabulary of the properties.                                           *)
(***************************************************************************)
\* A background session is the thread a background submit started.
Active(r) == thread[r].st \in {"started", "check", "attempting", "sleeping"}
Ended(r) == thread[r].st \in {"crashed", "finished"}

Background(r) == req[r].op = "submit" /\ req[r].pc = "done" /\ Truthy(req[r].manual)
Immediate(r) == req[r].op = "submit" /\ req[r].pc = "done" /\ ~Truthy(req[r].manual)

\* The priority table of classification rules (rules 1 to 12).
Classify(stdout, stderr) ==
    IF stderr # EmptyText
    THEN IF Contains(Lower(stderr), PskInvalid) THEN "WrongPassword"
         ELSE "Unclassified"
    ELSE IF stdout # EmptyText
    THEN IF Contains(Lower(stdout), SuccessfullyActivated) THEN "Success"
         ELSE IF Contains(Lower(stdout), ActivationFailed) THEN "ActivationFailed"
         ELSE IF Contains(Lower(stdout), NoNetwork) THEN "NetworkNotFound"
         ELSE IF Contains(Lower(stdout), NoSecrets) THEN "WrongPassword"
         ELSE IF Contains(Lower(stdout), NoDevice) THEN "DeviceUnavailable"
         ELSE IF Contains(Lower(stdout), NotReady) THEN "DeviceNotReady"
         ELSE IF Contains(Lower(stdout), InvalidPassword) THEN "WrongPassword"
         ELSE IF Contains(Lower(stdout), NotFoundOrIncorrect)
         THEN "NetworkNotFoundOrWrongPassword"
         ELSE "Unclassified"
    ELSE "Unknown"

\* The outcome a reply conveys to the caller.
OutcomeOf(rep) ==
    IF rep.kind # "json" THEN "None"
    ELSE IF rep.status = "success" THEN "Success"
    ELSE IF rep.message.fixed = "Wrong password" THEN "WrongPassword"
    ELSE IF rep.message.fixed = "Connection activation failed." THEN "ActivationFailed"
    ELSE IF rep.message.fixed = "Could not find a wifi network with the specified SSID."
    THEN "NetworkNotFound"
    ELSE IF rep.message.fixed = "Could not connect. Possible hardware issue."
    THEN "DeviceUnavailable"
    ELSE IF rep.message.fixed = "The device is not ready." THEN "DeviceNotReady"
    ELSE IF rep.message.fixed = "The password is incorrect or the network could not be found."
    THEN "NetworkNotFoundOrWrongPassword"
    ELSE IF rep.message.fixed = "Could not connect. Please try again." THEN "Unknown"
    ELSE "Unclassified"

(***************************************************************************)
(* C1.  At most one background retry session is active at any time: a      *)
(* second background submit never leaves two sessions alive.               *)
(***************************************************************************)
C1_AtMostOneActiveSession ==
    Cardinality({r \in Reqs : Active(r)}) <= 1

(***************************************************************************)
(* C2.  A background session that has ended has made at least one          *)
(* connection attempt, the first of them at session time 0 and with the    *)
(* submitted identity and credential.                                      *)
(***************************************************************************)
C2_EndedSessionMadeAttempt ==
    \A r \in Reqs :
        Ended(r) =>
            /\ thread[r].attempts >= 1
            /\ thread[r].firstStart = thread[r].started
            /\ thread[r].cmd = ConnectionCommand(thread[r].ssid, thread[r].password)

(***************************************************************************)
(* C3.  A background session that has ended before maxDuration elapsed     *)
(* has had an attempt classified Success by the table (empty stderr and    *)
(* stdout containing "successfully activated").                            *)
(***************************************************************************)
C3_EarlyEndOnlyOnSuccess ==
    \A r \in Reqs :
        (Ended(r) /\ thread[r].ended < thread[r].started + MaxDuration)
            => thread[r].okSeen

C6_ImmediateReturnsOutcome ==
    \A r \in Reqs :
        Immediate(r) => req[r].calls = 1 /\ reply[r].kind = "json"

(***************************************************************************)
(* C7.  The outcome an immediate submit conveys is the outcome of the      *)
(* first matching rule of the classification table for the tool's stdout   *)
(* and stderr; it is Success only if stdout contains "successfully         *)
(* activated".                                                             *)
(***************************************************************************)
C7_ClassificationFollowsTable ==
    \A r \in Reqs :
        Immediate(r) =>
            /\ OutcomeOf(reply[r]) = Classify(req[r].out, req[r].err)
            /\ OutcomeOf(reply[r]) = "Success"
                   => Contains(Lower(req[r].out), SuccessfullyActivated)

(***************************************************************************)
(* C8.  When the tool's output matches no rule, the message given to the   *)
(* caller is that output unchanged: stderr if it is not empty, else        *)
(* stdout.                                                                 *)
(***************************************************************************)
C8_UnclassifiedSurfacedVerbatim ==
    \A r \in Reqs :
        (Immediate(r) /\ Classify(req[r].out, req[r].err) = "Unclassified")
            => /\ reply[r].kind = "json"
               /\ reply[r].message =
                      Raw(IF req[r].err # EmptyText THEN req[r].err ELSE req[r].out)

(***************************************************************************)
(* C9.  The step in which a background submit returns gives the reply      *)
(* "info", with the config written and the thread started, and no          *)
(* connection attempt of that thread made yet; the reply never changes     *)
(* afterwards, whatever the thread does.                                   *)
(***************************************************************************)
C9_BackgroundReplyIsInfo ==
    [][\A r \in Reqs :
          /\ (req[r].pc # "done" /\ req'[r].pc = "done" /\ Truthy(req'[r].manual))
                => /\ reply'[r].kind = "json"
                   /\ reply'[r].status = "info"
                   /\ thread'[r].st = "started"
                   /\ thread'[r].attempts = 0
                   /\ file'.exists
                   /\ LET text == JsonDump(SaveConfigDict(thread'[r].ssid,
                                                          thread'[r].password))
                      IN  SubSeq(file'.data, 1, Len(text)) = text
          /\ Background(r) => reply'[r] = reply[r] /\ reply[r].status = "info"]_vars

\* A background submit has been answered "info" while its thread has not
\* run yet, and another has been answered "info" and its thread is over.
C9_Witness ==
    /\ \E r \in Reqs :
          Background(r) /\ reply[r].status = "info" /\ thread[r].st = "started"
    /\ \E r \in Reqs :
          Background(r) /\ reply[r].status = "info" /\ Ended(r)

(***************************************************************************)
(* C10.  load_hotspot_config never raises: whatever the file holds, the    *)
(* caller receives a value, and the empty record when there is no file or  *)
(* the file does not parse.                                                *)
(***************************************************************************)
C10_LoadNeverRaises ==
    \A r \in Reqs :
        (req[r].op = "load" /\ req[r].pc = "done") => reply[r].kind = "value"

\* The record a save of (ssid, password) is to leave: the identity, and the
\* credential if one was given.
RecordOf(ssid, password) ==
    IF password = ""
    THEN [keys |-> {"ssid"}, ssid |-> ssid, password |-> ""]
    ELSE [keys |-> {"ssid", "password"}, ssid |-> ssid, password |-> password]

\* No save_hotspot_config call is between its open and its close.
NoSaveInProgress == \A q \in Reqs : req[q].pc # "saving"

(***************************************************************************)
(* C11.  Once every save_hotspot_config call made so far has completed, a  *)
(* load returns exactly the record of the save that completed last, with   *)
(* nothing of an earlier save left in it.                                  *)
(***************************************************************************)
C11_LoadReturnsLastSave ==
    (hist.saves >= 1 /\ NoSaveInProgress)
        => load_hotspot_config(file)
              = ValueReply(RecordOf(hist.last[1], hist.last[2]))

(***************************************************************************)
(* C12.  A load that runs while a save is in progress returns a whole      *)
(* record, or the empty record of a missing file: never a failure and      *)
(* never part of a record.                                                 *)
(***************************************************************************)
C12_LoadSeesWholeRecord ==
    \A r \in Reqs :
        (req[r].op = "load" /\ req[r].pc = "done")
            => /\ reply[r].kind = "value"
               /\ \/ reply[r].value = EmptyDict
                  \/ \E ssid \in Ssids, password \in Passwords :
                        reply[r].value = RecordOf(ssid, password)

\* An index request, or a status query, that has been answered.
Indexed(r) == req[r].op = "index" /\ req[r].pc = "done"
Queried(r) == req[r].op = "status" /\ req[r].pc = "done"

\* The network names the scan reported: what follows "SSID:" on its lines.
NamesReported(lines) ==
    {n \in ScanNames : \E i \in 1..Len(lines) : lines[i] = SsidPrefix \o n}

(***************************************************************************)
(* C13.  The networks index lists are exactly the distinct non-empty names *)
(* the scan reported, less the one name equal to "PoetryCameraSetup"; a    *)
(* name that only contains "PoetryCameraSetup" is listed.                  *)
(***************************************************************************)
C13_ListsAllButSetupNetwork ==
    \A r \in Reqs :
        (Indexed(r) /\ gateway.scan.kind = "ok")
            => /\ reply[r].kind = "page"
               /\ reply[r].ssids_list
                     = NamesReported(gateway.scan.lines) \ {<<>>, <<SetupName>>}

(***************************************************************************)
(* C14.  When the scan command cannot be run to a normal exit (non-zero    *)
(* exit status, no such device, no nmcli binary), index returns an error   *)
(* text to its caller: neither a page with a list nor an exception.        *)
(***************************************************************************)
C14_ScanFailureIsReported ==
    \A r \in Reqs :
        (Indexed(r) /\ gateway.scan.kind # "ok") => reply[r].kind = "text"

\* The managed device is reported as actively connected to ssid.
ManagedConnectedTo(ssid) ==
    /\ gateway.status.kind = "ok"
    /\ \E i \in 1..Len(gateway.status.entries) :
          /\ gateway.status.entries[i].device = WIFI_DEVICE
          /\ gateway.status.entries[i].active = "yes"
          /\ gateway.status.entries[i].ssid = ssid

(***************************************************************************)
(* C15.  get_network_status never raises; it answers online with identity  *)
(* X only when nmcli reports wlan1 itself as actively connected to X, and  *)
(* offline with no identity on an error or when wlan1 is not connected.    *)
(***************************************************************************)
C15_StatusReflectsManagedDevice ==
    \A r \in Reqs :
        Queried(r)
            => /\ reply[r].kind = "status"
               /\ reply[r].internet_status = "online"
                     => ManagedConnectedTo(reply[r].ssid)
               /\ reply[r].internet_status # "online"
                     => /\ reply[r].internet_status = "offline"
                        /\ reply[r].ssid = <<>>
                        /\ ~\E x \in StatusSsids : ManagedConnectedTo(x)

(***************************************************************************)
(* C16.  At most one nmcli connect is running at any time, whether it was  *)
(* started by an immediate submit or by a background thread.               *)
(***************************************************************************)
C16_ConnectMutuallyExclusive ==
    Cardinality({r \in Reqs : req[r].pc = "connecting"})
        + Cardinality({r \in Reqs : thread[r].st = "attempting"}) <= 1

(***************************************************************************)
(* C17.  A background submit has persisted its target before it launches   *)
(* its thread: in the step that starts the thread, and so before any       *)
(* attempt of the session, the stored record is the session's target.      *)
(***************************************************************************)
C17_PersistedBeforeLaunch ==
    [][\A r \in Reqs :
          (thread[r].st = "none" /\ thread'[r].st = "started")
              => load_hotspot_config(file')
                    = ValueReply(RecordOf(thread'[r].ssid, thread'[r].password))]_vars

(***************************************************************************)
(* C18.  No step of an immediate submit, from its start to its reply,      *)
(* changes hotspot_config.json, whatever nmcli answers.                    *)
(***************************************************************************)
C18_ImmediateLeavesConfig ==
    [][\A r \in Reqs :
          (/\ req'[r] # req[r]
           /\ req'[r].op = "submit"
           /\ ~Truthy(req'[r].manual))
              => file' = file]_vars

\* An immediate submit has made its attempt and returned while the record
\* saved by a background submit is stored, whole, in the file.
C18_Witness ==
    /\ \E r \in Reqs : Immediate(r) /\ reply[r].kind # "none"
    /\ \E q \in Reqs : Background(q)
    /\ hist.saves >= 1
    /\ load_hotspot_config(file)
          = ValueReply(RecordOf(hist.last[1], hist.last[2]))

C20_LinesWithinLineLength ==
    wrap.pc = "returned"
        => \A i \in 1..(Len(wrap.out) - wrap.line_length) :
               \E k \in i..(i + wrap.line_length) : wrap.out[k] = Newline

====
